---------------------------- MODULE Spec2Model ----------------------------
(***************************************************************************)
(* Model of the Scriptable travel widget:                                  *)
(*   src/src/lib/DestinationTravelTime.js  (planner: getTravelTime)        *)
(*   src/src/Travel Widget.js              (widget script, reminders)      *)
(*                                                                         *)
(* Time is counted in whole seconds since an arbitrary local midnight (the *)
(* code works in milliseconds; every constant it uses is a whole number of *)
(* seconds).  The host clock has no daylight-saving jump in the modelled   *)
(* days, so setMinutes(getMinutes() +/- k) is +/- 60*k seconds.            *)
(***************************************************************************)
EXTENDS Integers, Sequences, FiniteSets, TLC

VARIABLES
    now,              \* the device clock (Date.now(), new Date())
    events,           \* CalendarEvent.today([...]): today's events of the calendar
    configFile,       \* content of data/DestinationTravelTime.config.json
    keychain,         \* Keychain entry LAST_LOC_LAT_LONG
    pending,          \* the notification centre: the pending notifications
    pc,               \* position of the widget script / getTravelTime
    bePessimistic,    \* argument of getTravelTime
    configPromise,    \* state of the promise returned by getConfig()
    nextEvent,        \* getTravelTime: const nextEvent
    myLocation,       \* getTravelTime: const myLocation
    liveLocation,     \* getCurrentLocation: let myLocation after the try/catch
    mapsResult,       \* getPossibleRoutes: const mapsResult
    possibleRoutes,   \* getTravelTime: const possibleRoutes
    chosenRoute,      \* getTravelTime: const chosenRoute
    routeInfo,        \* widget script: const routeInfo
    upsert,           \* the addUpdateNotification calls of this run, by title
    refreshAfterDate, \* widget.refreshAfterDate
    locCalls,         \* Location.current() calls of this run
    dirCalls,         \* directions requests (loadJSON) of this run
    totalCalls,       \* directions requests of the earlier runs
    storeReads,       \* Notification.allPending() calls of this run
    storeWrites,      \* Notification schedule() calls of this run
    logFileContent,   \* Logger.js: let logFileContent, as the lines appended
    fileOpen,         \* Logger.js: let fileOpen
    logFilePath,      \* Logger.js: let logFilePath
    functionStack,    \* Logger.js: let functionStack
    logFile,          \* the log file in iCloud: none, or its lines
    loggerCall        \* the last call of a logger method, and whether it threw

vars == <<now, events, configFile, keychain, pending, pc, bePessimistic,
          configPromise, nextEvent, myLocation, liveLocation, mapsResult,
          possibleRoutes, chosenRoute, routeInfo, upsert, refreshAfterDate,
          locCalls, dirCalls, totalCalls, storeReads, storeWrites,
          logFileContent, fileOpen, logFilePath, functionStack, logFile,
          loggerCall>>

\* the state of the widget script, the planner and their services
widgetVars ==
    <<now, events, configFile, keychain, pending, pc, bePessimistic,
      configPromise, nextEvent, myLocation, liveLocation, mapsResult,
      possibleRoutes, chosenRoute, routeInfo, upsert, refreshAfterDate,
      locCalls, dirCalls, totalCalls, storeReads, storeWrites>>

\* the state of the logger (Logger.js 16-19 and its file); the widget script
\* and the planner run with DEBUG = false and never touch it
loggerVars ==
    <<logFileContent, fileOpen, logFilePath, functionStack, logFile, loggerCall>>

---------------------------------------------------------------------------
(* JavaScript values.  A number is Num(n) or NaN; a property that is not   *)
(* there reads as Undefined.  A Date is the number of its getTime(); an    *)
(* Invalid Date has time NaN (and is truthy like any object).  An optional *)
(* string or object is Null (<<>>) or Some(v) (<<v>>).                      *)

Num(n) == [t |-> "number", n |-> n]

NaN == [t |-> "NaN", n |-> 0]

Undefined == [t |-> "undefined", n |-> 0]

IsNum(x) == x.t = "number"

\* a property holding a Date object (valid or not) is truthy, a missing one is not
IsPresent(x) == x.t # "undefined"

\* a + b, a - b on numbers: NaN and undefined operands give NaN
JsAdd(a, b) == IF IsNum(a) /\ IsNum(b) THEN Num(a.n + b.n) ELSE NaN

JsSub(a, b) == IF IsNum(a) /\ IsNum(b) THEN Num(a.n - b.n) ELSE NaN

\* a > b, a < b: every comparison with NaN is false
JsGT(a, b) == IsNum(a) /\ IsNum(b) /\ a.n > b.n

JsLT(a, b) == IsNum(a) /\ IsNum(b) /\ a.n < b.n

Null == <<>>

Some(v) == <<v>>

\* a string is truthy when it is there and not empty
Truthy(optString) == optString # Null /\ optString[1] # ""

---------------------------------------------------------------------------
(* Program constants (seconds).                                            *)

WindowMinutes == 120

DaySeconds == 24 * 60 * 60

MinBufferSeconds == 600

ThresholdSeconds == 30

GetReadyLeadSeconds == 10 * 60

RefreshFloorSeconds == 5 * 60

ArrivalMarginSeconds == 600

---------------------------------------------------------------------------
(* getNextEvent (DestinationTravelTime.js 76-142).  A location is a        *)
(* sequence of characters, so that the normalisation acts on it.           *)

EnDash == "en-dash"

MapChars(s, from, to) == [i \in 1..Len(s) |-> IF s[i] \in from THEN to ELSE s[i]]

DropChar(s, c) == SelectSeq(s, LAMBDA x : x # c)

\* .replaceAll(/[ \n]/gi, '+').replaceAll(/,/gi, '').replaceAll(/en-dash/gi, '-')
normalizeLocation(loc) ==
    MapChars(DropChar(MapChars(loc, {" ", "\n"}, "+"), ","), {EnDash}, "-")

\* endOfTheDay: today 00:00:00.000 plus one day
endOfTheDay(t) == ((t \div DaySeconds) + 1) * DaySeconds

noneEvent(t) == [title |-> "none", location |-> Null, time |-> endOfTheDay(t)]

\* ev.location?.length > 0
hasLocation(ev) == ev.location # Null /\ Len(ev.location[1]) > 0

\* the window with a strict bound: (ev.startDate - now) / 60 / 1000 < 120
withinWindowStrict(ev, t) == (ev.startDate - t) < WindowMinutes * 60

\* (ev.startDate - now) / 60 / 1000 <= 120
withinWindow(ev, t) == (ev.startDate - t) <= WindowMinutes * 60

\* the condition of the if statement in the loop over destinationEvents
takesEvent(ev, best, t) ==
    /\ ev.startDate > t
    /\ ev.startDate < best.time
    /\ withinWindow(ev, t)
    /\ hasLocation(ev)

asNextEvent(ev) ==
    [title |-> ev.title,
     location |-> Some(normalizeLocation(ev.location[1])),
     time |-> ev.startDate]

RECURSIVE scanEvents(_, _, _, _)
scanEvents(evs, i, best, t) ==
    IF i > Len(evs) THEN best
    ELSE scanEvents(evs, i + 1,
                    IF takesEvent(evs[i], best, t) THEN asNextEvent(evs[i]) ELSE best,
                    t)

getNextEvent(evs, t) == scanEvents(evs, 1, noneEvent(t), t)

---------------------------------------------------------------------------
(* getCurrentLocation (DestinationTravelTime.js 154-202).  The live fix is *)
(* Null when Location.current() throws, else Some(position).               *)

\* !x for a coordinate: undefined and 0 are falsy
falsyNumber(x) == ~IsNum(x) \/ x.n = 0

\* the test reduced to !myLocation
needsFallbackNoFix(live) == live = Null

\* !myLocation?.latitude || !myLocation?.longitude
needsFallback(live) ==
    \/ live = Null
    \/ falsyNumber(live[1].latitude)
    \/ falsyNumber(live[1].longitude)

position(lat, lon) == [latitude |-> lat, longitude |-> lon]

\* JSON.stringify(myLocation): a coordinate that is a number is written out, one
\* that is not (undefined is left out, NaN is written as null) is no number in
\* the text
stringify(p) ==
    [text |-> <<IF IsNum(p.latitude) THEN Some(p.latitude.n) ELSE Null,
                IF IsNum(p.longitude) THEN Some(p.longitude.n) ELSE Null>>]

\* JSON.parse of such a text: what is no number in the text reads as falsy
parse(s) ==
    position(IF s.text[1] = Null THEN Undefined ELSE Num(s.text[1][1]),
             IF s.text[2] = Null THEN Undefined ELSE Num(s.text[2][1]))

\* a fallback that would return the origin when the keychain has no entry
getCurrentLocationOrOrigin(live, kc) ==
    IF needsFallback(live)
    THEN [threw |-> FALSE,
          location |-> IF kc = Null THEN Some(position(Num(0), Num(0)))
                       ELSE Some(parse(kc[1])),
          keychain |-> kc]
    ELSE [threw |-> FALSE, location |-> live, keychain |-> Some(stringify(live[1]))]

\* the result: threw (Keychain.get of a key that is not there throws), the
\* location returned, and the keychain entry after the call
getCurrentLocation(live, kc) ==
    IF needsFallback(live)
    THEN [threw |-> kc = Null,
          location |-> IF kc = Null THEN Null ELSE Some(parse(kc[1])),
          keychain |-> kc]
    ELSE [threw |-> FALSE, location |-> live, keychain |-> Some(stringify(live[1]))]

---------------------------------------------------------------------------
(* getPossibleRoutes (DestinationTravelTime.js 213-282).  A response is    *)
(*   [failed, status, error_message, routes]: failed when loadJSON throws, *)
(*   status and error_message optional strings, routes a sequence of       *)
(*   [summary, duration], duration Undefined when the leg carries no       *)
(*   duration_in_traffic.                                                   *)

errorRoute(resp) ==
    [name |-> "Maps API error", travelTime |-> Undefined,
     status |-> resp.status, error |-> resp.error_message]

mapRoute(route) ==
    [name |-> route.summary, travelTime |-> route.duration,
     status |-> Null, error |-> Null]

\* a comparator with the two tests exchanged: least travel time first
compareRoutesFlipped(route1, route2) ==
    IF route1.travelTime.n > route2.travelTime.n THEN 1
    ELSE IF route1.travelTime.n < route2.travelTime.n THEN -1
    ELSE 0

\* the comparator handed to sort: greatest travel time first
compareRoutes(route1, route2) ==
    IF route1.travelTime.n < route2.travelTime.n THEN 1
    ELSE IF route1.travelTime.n > route2.travelTime.n THEN -1
    ELSE 0

\* Array.prototype.sort is stable: r goes behind every element that does not
\* compare greater than it
RECURSIVE insertRoute(_, _)
insertRoute(sorted, r) ==
    IF sorted = <<>> THEN <<r>>
    ELSE IF compareRoutes(Head(sorted), r) > 0
         THEN <<r>> \o sorted
         ELSE <<Head(sorted)>> \o insertRoute(Tail(sorted), r)

RECURSIVE sortRoutes(_)
sortRoutes(routes) ==
    IF routes = <<>> THEN <<>>
    ELSE insertRoute(sortRoutes(SubSeq(routes, 1, Len(routes) - 1)),
                     routes[Len(routes)])

\* mapsResult?.status !== 'OK'
statusNotOK(resp) == resp.status # Some("OK")

\* route.legs[0].duration_in_traffic.value throws when duration_in_traffic is missing
mapThrows(resp) == \E i \in 1..Len(resp.routes) : ~IsNum(resp.routes[i].duration)

\* the result: threw, or the array returned
getPossibleRoutes(resp) ==
    IF resp.failed THEN [threw |-> TRUE, routes |-> <<>>]
    ELSE IF statusNotOK(resp) THEN [threw |-> FALSE, routes |-> <<errorRoute(resp)>>]
    ELSE IF mapThrows(resp) THEN [threw |-> TRUE, routes |-> <<>>]
    ELSE [threw |-> FALSE,
          routes |-> sortRoutes([i \in 1..Len(resp.routes) |-> mapRoute(resp.routes[i])])]

---------------------------------------------------------------------------
(* getChosenRoute (DestinationTravelTime.js 292-332).  A known place is    *)
(* [location_names, preferred_routes], both used through includes() only.  *)
(* destination is Null when the caller passes no third argument.           *)

\* place.location_names.includes(destination)
placeMatches(place, destination) ==
    destination # Null /\ destination[1] \in place.location_names

\* knownPlaces.find(...): index of the first matching place (0: none)
findKnownPlace(knownPlaces, destination) ==
    IF \E i \in 1..Len(knownPlaces) : placeMatches(knownPlaces[i], destination)
    THEN CHOOSE i \in 1..Len(knownPlaces) :
             /\ placeMatches(knownPlaces[i], destination)
             /\ \A j \in 1..(i - 1) : ~placeMatches(knownPlaces[j], destination)
    ELSE 0

\* possibleRoutes.find(...): index of the first route the place prefers (0: none)
findPreferredRoute(routes, place) ==
    IF \E i \in 1..Len(routes) : routes[i].name \in place.preferred_routes
    THEN CHOOSE i \in 1..Len(routes) :
             /\ routes[i].name \in place.preferred_routes
             /\ \A j \in 1..(i - 1) : routes[j].name \notin place.preferred_routes
    ELSE 0

getChosenRoute(routes, knownPlaces, destination) ==
    LET k == findKnownPlace(knownPlaces, destination)
        p == IF k = 0 THEN 0 ELSE findPreferredRoute(routes, knownPlaces[k])
    IN  IF p # 0 THEN routes[p] ELSE routes[1]

---------------------------------------------------------------------------
(* getTravelTime (DestinationTravelTime.js 349-444): the values it builds. *)

\* the third argument of getChosenRoute at its call site (line 406): none
destinationArgument(ne) == Null

\* Math.floor(x * 0.2), the rounding the code does not use
floorFifth(n) == n \div 5

\* Math.ceil(x * 0.2) on a whole number of seconds (IEEE doubles give the exact
\* ceiling of n / 5 for every n a travel time can be)
ceilFifth(n) == (n + 4) \div 5

maxOf(a, b) == IF a >= b THEN a ELSE b

\* let finalTravelTime = chosenRoute.travelTime;
\* if (bePessimistic) finalTravelTime += Math.max(Math.ceil(finalTravelTime * 0.2), 600)
finalTravelTime(travelTime, pessimistic) ==
    IF ~pessimistic THEN travelTime
    ELSE IF IsNum(travelTime)
         THEN Num(travelTime.n + maxOf(ceilFifth(travelTime.n), MinBufferSeconds))
         ELSE NaN

noEventInfo ==
    [routeName |-> "none", routeTimeSeconds |-> Num(0),
     destinationName |-> "No where to go...",
     arrivalTargetTime |-> Undefined, arrivalTime |-> Undefined]

mapsErrorInfo ==
    [routeName |-> "none", routeTimeSeconds |-> Num(0),
     destinationName |-> "Maps API error",
     arrivalTargetTime |-> Undefined, arrivalTime |-> Undefined]

\* a returnObj without the arrival estimate
returnObjNoArrival(route, ne, pessimistic, t) ==
    [routeName |-> route.name,
     routeTimeSeconds |-> finalTravelTime(route.travelTime, pessimistic),
     destinationName |-> ne.title,
     arrivalTargetTime |-> Num(ne.time),
     arrivalTime |-> Undefined]

\* returnObj; arrivalTime is new Date() moved by finalTravelTime seconds
returnObj(route, ne, pessimistic, t) ==
    LET final == finalTravelTime(route.travelTime, pessimistic)
    IN  [routeName |-> route.name,
         routeTimeSeconds |-> final,
         destinationName |-> ne.title,
         arrivalTargetTime |-> Num(ne.time),
         arrivalTime |-> JsAdd(Num(t), final)]

\* the sentinel test with another spelling: nextEvent.title === 'None'
isNoneMistyped(ne) == ne.title = "None"

\* nextEvent.title === 'none'
isNone(ne) == ne.title = "none"

\* possibleRoutes[0].error
firstHasError(routes) == Truthy(routes[1].error)

\* await configPromise goes on at once, settled or not
configSettledOrNot(promise) == TRUE

\* await configPromise goes on once the promise is settled
configSettled(promise) == promise # "pending"

\* config.known_places is an array (knownPlaces.find can be called)
hasKnownPlaces(file) == file # Null /\ "known_places" \in DOMAIN file[1]

---------------------------------------------------------------------------
(* The widget script (Travel Widget.js 37-229): the values it builds.      *)

Titles == {"Leave Now", "Get Ready To Leave"}

idleUpsert == [pc |-> "idle", message |-> "", trigger |-> Undefined, found |-> Null]

\* the test without its 30 seconds: triggerTime > Date.now()
passesThresholdLoose(trigger, t) == JsGT(trigger, Num(t))

\* triggerTime > Date.now() + 30 * 1000
passesThreshold(trigger, t) == JsGT(trigger, Num(t + ThresholdSeconds))

\* addUpdateNotification up to its first await: past the threshold it has called
\* Notification.allPending() and is suspended, otherwise it has returned
callUpsert(message, trigger, t) ==
    [pc |-> IF passesThreshold(trigger, t) THEN "reading" ELSE "skipped",
     message |-> message, trigger |-> trigger, found |-> Null]

\* the target less twice the travel time (what the refresh time takes)
leaveNowTimeTwice(info) ==
    JsSub(info.arrivalTargetTime, JsAdd(info.routeTimeSeconds, info.routeTimeSeconds))

\* arrivalTargetTime.getTime() - routeTimeSeconds * 1000
leaveNowTime(info) == JsSub(info.arrivalTargetTime, info.routeTimeSeconds)

\* the test without its ten minutes: notificationTriggerTime > Date.now()
wantsGetReadyAhead(info, t) == JsGT(leaveNowTime(info), Num(t))

\* notificationTriggerTime > Date.now() - 10 * 60 * 1000
wantsGetReady(info, t) == JsGT(leaveNowTime(info), Num(t - GetReadyLeadSeconds))

\* setMinutes(getMinutes() - 10)
getReadyTime(info) == JsSub(leaveNowTime(info), Num(GetReadyLeadSeconds))

\* the block without its if (routeInfo.arrivalTargetTime)
reminderCallsAlways(info, t) ==
    [title \in Titles |->
        IF title = "Leave Now"
        THEN callUpsert("Leave NOW to " \o info.destinationName, leaveNowTime(info), t)
        ELSE IF wantsGetReady(info, t)
             THEN callUpsert("Get ready to leave to " \o info.destinationName,
                             getReadyTime(info), t)
             ELSE idleUpsert]

\* the reminder scheduling block (lines 132-159)
reminderCalls(info, t) ==
    [title \in Titles |->
        IF ~IsPresent(info.arrivalTargetTime) THEN idleUpsert
        ELSE IF title = "Leave Now"
             THEN callUpsert("Leave NOW to " \o info.destinationName,
                             leaveNowTime(info), t)
             ELSE IF wantsGetReady(info, t)
                  THEN callUpsert("Get ready to leave to " \o info.destinationName,
                                  getReadyTime(info), t)
                  ELSE idleUpsert]

bothTimes(info) == IsPresent(info.arrivalTime) /\ IsPresent(info.arrivalTargetTime)

\* the textColor block (lines 177-185): arrivalTime.setTime(getTime() + 600000)
afterTextColor(info) ==
    IF bothTimes(info)
    THEN [info EXCEPT !.arrivalTime = JsAdd(@, Num(ArrivalMarginSeconds))]
    ELSE info

\* refreshTime (lines 197-217)
refreshTime(info, t) ==
    LET candidate == IF bothTimes(info)
                     THEN JsSub(info.arrivalTargetTime,
                                JsAdd(info.routeTimeSeconds, info.routeTimeSeconds))
                     ELSE Num(t)
    IN  IF JsLT(candidate, Num(t + RefreshFloorSeconds))
        THEN Num(t + RefreshFloorSeconds)
        ELSE candidate

---------------------------------------------------------------------------
(* The notification centre.  A pending notification is                     *)
(* [id, title, body, trigger]; the id stands for its identifier.           *)

withTitle(store, title) == {n \in store : n.title = title}

\* an identifier no pending notification and no notification object of this run has
freshId(store, ups) ==
    LET used == {n.id : n \in store} \cup
                {ups[title].found[1] : title \in {x \in Titles : ups[x].found # Null}}
    IN  CHOOSE i \in 0..Cardinality(used) : i \notin used

\* an update that would schedule a new Notification() instead of the one found
scheduleExistingAsNew(store, ups, id, title, u) ==
    store \cup {[id |-> freshId(store, ups), title |-> title,
                 body |-> u.message, trigger |-> u.trigger.n]}

\* currentNotification.setTriggerDate(..); .body = ..; .schedule(): the request
\* with this identifier is replaced
scheduleExisting(store, ups, id, title, u) ==
    {n \in store : n.id # id} \cup
    {[id |-> id, title |-> title, body |-> u.message, trigger |-> u.trigger.n]}

\* new Notification(); ...; notif.schedule()
scheduleNew(store, ups, title, u) ==
    store \cup {[id |-> freshId(store, ups), title |-> title,
                 body |-> u.message, trigger |-> u.trigger.n]}

---------------------------------------------------------------------------
(* The logger (Logger.js).  The log is kept as the sequence of the lines   *)
(* appended; a line is [contentType, name, indent, text]: the content type *)
(* padded to five characters, the function name, the number of pad         *)
(* characters put before the text (padStart adds indentLevel characters),  *)
(* and the text.  The date at the head of a line is left out.              *)

defaultFunctionInfo == [name |-> "", indentLevel |-> 0, caller |-> ""]

\* contentType.padEnd(5, ' ').substring(0, 5)
padType(contentType) ==
    IF contentType = "INFO" THEN "INFO "
    ELSE IF contentType = "WARN" THEN "WARN "
    ELSE contentType

\* functionStack.findIndex((el) => el.name === name), counted from 1; 0: none
findIndex(stack, name) ==
    IF \E i \in 1..Len(stack) : stack[i].name = name
    THEN CHOOSE i \in 1..Len(stack) :
             /\ stack[i].name = name
             /\ \A j \in 1..(i - 1) : stack[j].name # name
    ELSE 0

\* functionStack.find((el) => el.name === name) || { ...defaultFunctionInfo }
findFunctionInfo(stack, name) ==
    IF findIndex(stack, name) = 0 THEN defaultFunctionInfo
    ELSE stack[findIndex(stack, name)]

\* stringToWrite of writeToLogFileWithFunctionInfo
logLine(logContent, functionInfo, contentType) ==
    [contentType |-> padType(contentType), name |-> functionInfo.name,
     indent |-> functionInfo.indentLevel, text |-> logContent]

\* functionStack.splice(functionIndex, 1)
splice(stack, i) == SubSeq(stack, 1, i - 1) \o SubSeq(stack, i + 1, Len(stack))

\* writeToLogFileWithFunctionInfo: logFileContent += stringToWrite;
\* fm.writeString(logFilePath, logFileContent)
WriteWithFunctionInfo(logContent, functionInfo, contentType) ==
    /\ logFileContent' = Append(logFileContent,
                                logLine(logContent, functionInfo, contentType))
    /\ logFile' = Some(logFileContent')

\* the number of logger calls followed
MaxCalls == 5

\* a logger method is called: the calls are counted, and the call recorded
callOf(op, arg, threw) == [n |-> loggerCall.n + 1, op |-> op, arg |-> arg, threw |-> threw]

\* openLogFile(fileName, startNew): an existing file is removed or read, the
\* log is open, and the start line written
OpenLogFile(startNew) ==
    /\ loggerCall.n < MaxCalls
    /\ logFilePath' = "logs/TravelWidget.log"
    /\ fileOpen' = TRUE
    /\ LET content == IF logFile # Null /\ ~startNew THEN logFile[1]
                      ELSE logFileContent
       IN  /\ logFileContent' =
                 Append(content,
                        logLine("***** START OF LOG *****",
                                findFunctionInfo(functionStack, ""), "INFO"))
           /\ logFile' = Some(logFileContent')
    /\ loggerCall' = callOf("openLogFile", "", FALSE)
    /\ UNCHANGED functionStack
    /\ UNCHANGED widgetVars

\* writeToLogFile(logContent, functionName, contentType)
WriteToLogFile(logContent, functionName, contentType) ==
    /\ loggerCall.n < MaxCalls
    /\ logFilePath # ""
    /\ IF fileOpen
       THEN /\ WriteWithFunctionInfo(logContent,
                                     findFunctionInfo(functionStack, functionName),
                                     contentType)
            /\ loggerCall' = callOf("writeToLogFile", functionName, FALSE)
       ELSE /\ loggerCall' = callOf("writeToLogFile", functionName, TRUE)
            /\ UNCHANGED <<logFileContent, logFile>>
    /\ UNCHANGED <<fileOpen, logFilePath, functionStack>>
    /\ UNCHANGED widgetVars

\* pushFunction(functionName, fromFunction)
PushFunction(functionName, fromFunction) ==
    /\ loggerCall.n < MaxCalls
    /\ logFilePath # ""
    /\ LET fromFxnInfo == findFunctionInfo(functionStack, fromFunction)
       IN  /\ functionStack' =
                 IF findIndex(functionStack, functionName) = 0
                 THEN Append(functionStack,
                             [name |-> functionName,
                              indentLevel |-> fromFxnInfo.indentLevel + 1,
                              caller |-> fromFunction])
                 ELSE functionStack
           /\ WriteWithFunctionInfo("CALL: " \o functionName, fromFxnInfo, "INFO")
    /\ loggerCall' = callOf("pushFunction", functionName, FALSE)
    /\ UNCHANGED <<fileOpen, logFilePath>>
    /\ UNCHANGED widgetVars

\* popFunction(functionName): writeToLogFile throws on a closed log, before the
\* splice
PopFunction(functionName) ==
    /\ loggerCall.n < MaxCalls
    /\ logFilePath # ""
    /\ LET functionIndex == findIndex(functionStack, functionName)
       IN  IF Len(functionStack) > 1
           THEN IF functionIndex > 1
                THEN IF fileOpen
                     THEN /\ WriteWithFunctionInfo(
                                "END: " \o functionName,
                                findFunctionInfo(functionStack,
                                                 functionStack[functionIndex].caller),
                                "INFO")
                          /\ functionStack' = splice(functionStack, functionIndex)
                          /\ loggerCall' = callOf("popFunction", functionName, FALSE)
                     ELSE /\ loggerCall' = callOf("popFunction", functionName, TRUE)
                          /\ UNCHANGED <<logFileContent, logFile, functionStack>>
                ELSE /\ WriteWithFunctionInfo(
                           "Can't delete '" \o functionName \o " from the function stack",
                           defaultFunctionInfo, "INFO")
                     /\ loggerCall' = callOf("popFunction", functionName, FALSE)
                     /\ UNCHANGED functionStack
           ELSE /\ loggerCall' = callOf("popFunction", functionName, FALSE)
                /\ UNCHANGED <<logFileContent, logFile, functionStack>>
    /\ UNCHANGED <<fileOpen, logFilePath>>
    /\ UNCHANGED widgetVars

\* closeLogFile()
CloseLogFile ==
    /\ loggerCall.n < MaxCalls
    /\ logFilePath # ""
    /\ IF fileOpen
       THEN /\ WriteWithFunctionInfo("***** END OF LOG *****",
                                     findFunctionInfo(functionStack, ""), "INFO")
            /\ fileOpen' = FALSE
       ELSE UNCHANGED <<logFileContent, logFile, fileOpen>>
    /\ loggerCall' = callOf("closeLogFile", "", FALSE)
    /\ UNCHANGED <<logFilePath, functionStack>>
    /\ UNCHANGED widgetVars

\* the logger as the module builds it (lines 16-19), no log file yet
InitLogger ==
    /\ logFileContent = <<>>
    /\ fileOpen = FALSE
    /\ logFilePath = ""
    /\ functionStack = <<defaultFunctionInfo>>
    /\ logFile = Null
    /\ loggerCall = [n |-> 0, op |-> "", arg |-> "", threw |-> FALSE]

---------------------------------------------------------------------------
(* Actions.                                                                *)

unsetEvent == [title |-> "", location |-> Null, time |-> 0]

unsetInfo ==
    [routeName |-> "", routeTimeSeconds |-> Undefined, destinationName |-> "",
     arrivalTargetTime |-> Undefined, arrivalTime |-> Undefined]

idleUpserts == [title \in Titles |-> idleUpsert]

running == pc \notin {"idle", "complete", "failed"}

\* The host runs the widget script at time t: line 37 calls getTravelTime(true),
\* which calls getConfig() and getNextEvent() and is suspended in the latter.
\* Whatever the previous run left unfinished is gone with its context.
StartRun(t) ==
    /\ ~running
    /\ t > now
    /\ now' = t
    /\ pc' = "getNextEvent"
    /\ bePessimistic' = TRUE
    /\ configPromise' = "pending"
    /\ nextEvent' = unsetEvent
    /\ myLocation' = Null
    /\ liveLocation' = Null
    /\ mapsResult' = Null
    /\ possibleRoutes' = <<>>
    /\ chosenRoute' = Null
    /\ routeInfo' = unsetInfo
    /\ upsert' = idleUpserts
    /\ locCalls' = 0
    /\ dirCalls' = 0
    /\ totalCalls' = totalCalls + dirCalls
    /\ storeReads' = 0
    /\ storeWrites' = 0
    /\ UNCHANGED loggerVars
    /\ UNCHANGED <<events, configFile, keychain, pending, refreshAfterDate>>

\* getConfig (lines 25-52) settles: JSON.parse(content) or an exception
ConfigSettles ==
    /\ pc # "idle"
    /\ configPromise = "pending"
    /\ configPromise' = IF configFile = Null THEN "rejected" ELSE "resolved"
    /\ UNCHANGED loggerVars
    /\ UNCHANGED <<now, events, configFile, keychain, pending, pc, bePessimistic,
                   nextEvent, myLocation, liveLocation,
                   mapsResult, possibleRoutes, chosenRoute,
                   routeInfo, upsert, refreshAfterDate, locCalls, dirCalls,
                   totalCalls, storeReads, storeWrites>>

\* getTravelTime lines 360-376: the event is selected; without one the result
\* is returned, with one getCurrentLocation is called
GetNextEvent ==
    /\ pc = "getNextEvent"
    /\ LET ne == getNextEvent(events, now)
       IN  /\ nextEvent' = ne
           /\ IF isNone(ne)
              THEN /\ routeInfo' = noEventInfo
                   /\ pc' = "widget"
                   /\ locCalls' = locCalls
              ELSE /\ routeInfo' = routeInfo
                   /\ pc' = "getCurrentLocation"
                   /\ locCalls' = locCalls + 1
    /\ UNCHANGED loggerVars
    /\ UNCHANGED <<now, events, configFile, keychain, pending, bePessimistic,
                   configPromise, myLocation, liveLocation,
                   mapsResult, possibleRoutes,
                   chosenRoute, upsert, refreshAfterDate, dirCalls, totalCalls,
                   storeReads, storeWrites>>

\* getTravelTime lines 376-381: the location arrives and the directions request
\* is sent (getPossibleRoutes up to its await)
GetCurrentLocation(live) ==
    /\ pc = "getCurrentLocation"
    /\ liveLocation' = live
    /\ LET r == getCurrentLocation(live, keychain)
       IN  IF r.threw
           THEN /\ pc' = "failed"
                /\ UNCHANGED <<myLocation, keychain, dirCalls>>
           ELSE /\ pc' = "getPossibleRoutes"
                /\ myLocation' = r.location
                /\ keychain' = r.keychain
                /\ dirCalls' = dirCalls + 1
    /\ UNCHANGED loggerVars
    /\ UNCHANGED <<now, events, configFile, pending, bePessimistic, configPromise,
                   nextEvent, mapsResult, possibleRoutes, chosenRoute, routeInfo,
                   upsert, refreshAfterDate, locCalls, totalCalls, storeReads,
                   storeWrites>>

\* getTravelTime lines 377-396: the response arrives
GetPossibleRoutes(resp) ==
    /\ pc = "getPossibleRoutes"
    /\ mapsResult' = Some(resp)
    /\ LET r == getPossibleRoutes(resp)
       IN  IF r.threw \/ r.routes = <<>>
           THEN /\ pc' = "failed"
                /\ UNCHANGED <<possibleRoutes, routeInfo>>
           ELSE /\ possibleRoutes' = r.routes
                /\ IF firstHasError(r.routes)
                   THEN pc' = "widget" /\ routeInfo' = mapsErrorInfo
                   ELSE pc' = "awaitConfig" /\ routeInfo' = routeInfo
    /\ UNCHANGED loggerVars
    /\ UNCHANGED <<now, events, configFile, keychain, pending, bePessimistic,
                   configPromise, nextEvent, myLocation, liveLocation,
                   chosenRoute, upsert,
                   refreshAfterDate, locCalls, dirCalls, totalCalls, storeReads,
                   storeWrites>>

\* getTravelTime lines 405-443: the configuration is there, the route is chosen
\* and the result returned; a rejected promise is thrown by the await, and
\* knownPlaces.find throws when the configuration has no known_places
AwaitConfig ==
    /\ pc = "awaitConfig"
    /\ configSettled(configPromise)
    /\ IF configPromise = "rejected" \/ ~hasKnownPlaces(configFile)
       THEN /\ pc' = "failed"
            /\ UNCHANGED <<chosenRoute, routeInfo>>
       ELSE LET route == getChosenRoute(possibleRoutes, configFile[1].known_places,
                                        destinationArgument(nextEvent))
            IN  /\ chosenRoute' = Some(route)
                /\ routeInfo' = returnObj(route, nextEvent, bePessimistic, now)
                /\ pc' = "widget"
    /\ UNCHANGED loggerVars
    /\ UNCHANGED <<now, events, configFile, keychain, pending, bePessimistic,
                   configPromise, nextEvent, myLocation, liveLocation,
                   mapsResult, possibleRoutes,
                   upsert, refreshAfterDate, locCalls, dirCalls, totalCalls,
                   storeReads, storeWrites>>

\* Travel Widget.js lines 126-229, one synchronous stretch: the reminder calls,
\* the display, the refresh time, Script.complete()
WidgetScript ==
    /\ pc = "widget"
    /\ upsert' = reminderCalls(routeInfo, now)
    /\ storeReads' = Cardinality({title \in Titles : upsert'[title].pc = "reading"})
    /\ routeInfo' = afterTextColor(routeInfo)
    /\ refreshAfterDate' = refreshTime(afterTextColor(routeInfo), now)
    /\ pc' = "complete"
    /\ UNCHANGED loggerVars
    /\ UNCHANGED <<now, events, configFile, keychain, pending, bePessimistic,
                   configPromise, nextEvent, myLocation, liveLocation,
                   mapsResult, possibleRoutes,
                   chosenRoute, locCalls, dirCalls, totalCalls, storeWrites>>

\* Notification.allPending() reads the pending notifications;
\* notifications.find((notif) => notif.title === title)
AllPendingResolves(title) ==
    /\ upsert[title].pc = "reading"
    /\ \E found \in (IF withTitle(pending, title) = {} THEN {Null}
                     ELSE {Some(n.id) : n \in withTitle(pending, title)}) :
          upsert' = [upsert EXCEPT ![title].pc = "resolved", ![title].found = found]
    /\ UNCHANGED loggerVars
    /\ UNCHANGED <<now, events, configFile, keychain, pending, pc, bePessimistic,
                   configPromise, nextEvent, myLocation, liveLocation,
                   mapsResult, possibleRoutes,
                   chosenRoute, routeInfo, refreshAfterDate, locCalls, dirCalls,
                   totalCalls, storeReads, storeWrites>>

\* addUpdateNotification lines 68-92: update the notification found, or create one
UpsertWrites(title) ==
    /\ upsert[title].pc = "resolved"
    /\ pending' = IF upsert[title].found # Null
                  THEN scheduleExisting(pending, upsert, upsert[title].found[1],
                                        title, upsert[title])
                  ELSE scheduleNew(pending, upsert, title, upsert[title])
    /\ upsert' = [upsert EXCEPT ![title].pc = "done"]
    /\ storeWrites' = storeWrites + 1
    /\ UNCHANGED loggerVars
    /\ UNCHANGED <<now, events, configFile, keychain, pc, bePessimistic,
                   configPromise, nextEvent, myLocation, liveLocation,
                   mapsResult, possibleRoutes,
                   chosenRoute, routeInfo, refreshAfterDate, locCalls, dirCalls,
                   totalCalls, storeReads>>

\* the notification centre delivers a notification that is due
Deliver(n) ==
    /\ n \in pending
    /\ n.trigger <= now
    /\ pending' = pending \ {n}
    /\ UNCHANGED loggerVars
    /\ UNCHANGED <<now, events, configFile, keychain, pc, bePessimistic,
                   configPromise, nextEvent, myLocation, liveLocation,
                   mapsResult, possibleRoutes,
                   chosenRoute, routeInfo, upsert, refreshAfterDate, locCalls,
                   dirCalls, totalCalls, storeReads, storeWrites>>

---------------------------------------------------------------------------
(* The environment: the calendar, the files, the services.                 *)

EventStart == 10 * 3600

HomeLocation == <<"H", ",", " ", "Q">>

HomeToken == <<"H", "+", "Q">>

gymEvent == [title |-> "Gym", location |-> Some(HomeLocation), startDate |-> EventStart]

callEvent == [title |-> "Call", location |-> Null, startDate |-> EventStart - 600]

lunchEvent == [title |-> "Lunch", location |-> Some(<<"C">>), startDate |-> EventStart + 1800]

EventLists == {<<>>, <<gymEvent>>, <<lunchEvent, callEvent, gymEvent>>}

\* Location.current(): it throws (Null), or resolves to a fix, whose latitude
\* may be 0 and which may come without a latitude
LiveFixes ==
    {Null, Some(position(Num(3), Num(5))), Some(position(Num(0), Num(5))),
     Some(position(Undefined, Num(5)))}

Keychains == {Null, Some(stringify(position(Num(1), Num(1))))}

homePlace == [location_names |-> {HomeToken}, preferred_routes |-> {"A2"}]

\* the config file: missing or not JSON (Null), JSON without known_places, or
\* JSON with known_places
Configs ==
    {Null, Some([places |-> <<>>]), Some([known_places |-> <<>>]),
     Some([known_places |-> <<homePlace>>])}

response(failed, status, message, routes) ==
    [failed |-> failed, status |-> status, error_message |-> message, routes |-> routes]

leg(summary, duration) == [summary |-> summary, duration |-> duration]

okTwo == response(FALSE, Some("OK"), Null, <<leg("A2", Num(800)), leg("M1", Num(1000))>>)

okLong == response(FALSE, Some("OK"), Null, <<leg("M1", Num(5000))>>)

zeroResults == response(FALSE, Some("ZERO_RESULTS"), Null, <<>>)

denied == response(FALSE, Some("REQUEST_DENIED"), Some("The provided API key is invalid."), <<>>)

noStatus == response(FALSE, Null, Null, <<>>)

transportFailure == response(TRUE, Null, Null, <<>>)

okEmpty == response(FALSE, Some("OK"), Null, <<>>)

okNoTraffic == response(FALSE, Some("OK"), Null, <<leg("M1", Undefined)>>)

Responses == {okTwo, okLong, zeroResults, denied, noStatus, transportFailure,
              okEmpty, okNoTraffic}

oldReminder ==
    [id |-> 0, title |-> "Leave Now", body |-> "Leave NOW to Work",
     trigger |-> EventStart - 1000]

InitialStores == {{}, {oldReminder}}

\* the times at which the host runs the script: before the two-hour window, in
\* it, shortly before the time to leave, shortly after it and long after it
RunTimes ==
    {EventStart - 7300, EventStart - 6600, EventStart - 1700, EventStart - 1500,
     EventStart - 100}

InitRunState ==
    /\ InitLogger
    /\ pc = "idle"
    /\ bePessimistic = TRUE
    /\ configPromise = "none"
    /\ nextEvent = unsetEvent
    /\ myLocation = Null
    /\ liveLocation = Null
    /\ mapsResult = Null
    /\ possibleRoutes = <<>>
    /\ chosenRoute = Null
    /\ routeInfo = unsetInfo
    /\ upsert = idleUpserts
    /\ refreshAfterDate = Undefined
    /\ locCalls = 0
    /\ dirCalls = 0
    /\ totalCalls = 0
    /\ storeReads = 0
    /\ storeWrites = 0

Init ==
    /\ now = EventStart - 7400
    /\ events \in EventLists
    /\ configFile \in Configs
    /\ keychain \in Keychains
    /\ pending \in InitialStores
    /\ InitRunState

Next ==
    \/ \E t \in RunTimes : StartRun(t)
    \/ ConfigSettles
    \/ GetNextEvent
    \/ \E live \in LiveFixes : GetCurrentLocation(live)
    \/ \E resp \in Responses : GetPossibleRoutes(resp)
    \/ AwaitConfig
    \/ WidgetScript
    \/ \E title \in Titles : AllPendingResolves(title)
    \/ \E title \in Titles : UpsertWrites(title)
    \/ \E n \in pending : Deliver(n)

Spec == Init /\ [][Next]_vars

\* getTravelTime(bePessimistic) is called: getConfig() and getNextEvent() are
\* called and the latter is awaited
CallGetTravelTime(pessimistic) ==
    /\ pc = "idle"
    /\ pc' = "getNextEvent"
    /\ bePessimistic' = pessimistic
    /\ configPromise' = "pending"
    /\ UNCHANGED loggerVars
    /\ UNCHANGED <<now, events, configFile, keychain, pending,
                   nextEvent, myLocation, liveLocation,
                   mapsResult, possibleRoutes, chosenRoute,
                   routeInfo, upsert, refreshAfterDate, locCalls, dirCalls,
                   totalCalls, storeReads, storeWrites>>

---------------------------------------------------------------------------
(* getNextEvent on its own: every list of up to MaxEvents events of today. *)

MaxEvents == 2

SelectNows == {EventStart, 22 * 3600 + 1800}

StartOffsets == {0 - 60, 0, 1, 3600, 7200, 7201}

SelectLocations == {Null, Some(<<>>), Some(HomeLocation)}

\* the events CalendarEvent.today can return at time t: they start before the
\* day ends
TodaysEvents(t) ==
    {[title |-> title, location |-> loc, startDate |-> t + d] :
        title \in {"Gym", "Work"}, loc \in SelectLocations,
        d \in {x \in StartOffsets : t + x < endOfTheDay(t)}}

SeqsUpTo(S, n) == UNION {[1..k -> S] : k \in 0..n}

InitSelect ==
    /\ now \in SelectNows
    /\ events \in SeqsUpTo(TodaysEvents(now), MaxEvents)
    /\ configFile = Some([known_places |-> <<>>])
    /\ keychain = Null
    /\ pending = {}
    /\ InitRunState

NextSelect ==
    \/ CallGetTravelTime(TRUE)
    \/ GetNextEvent

SpecSelect == InitSelect /\ [][NextSelect]_vars

---------------------------------------------------------------------------
(* getTravelTime on its own, with every response of up to MaxRoutes routes *)
(* and both values of bePessimistic.                                       *)

MaxRoutes == 3

RouteNames == {"A2", "M1"}

Durations == {1000, 3001, 5000}

Legs == {leg(name, Num(d)) : name \in RouteNames, d \in Durations}

PlanResponses ==
    {response(FALSE, Some("OK"), Null, routes) : routes \in SeqsUpTo(Legs, MaxRoutes)}
    \cup {zeroResults, denied, transportFailure}

InitPlan ==
    /\ now = EventStart - 3600
    /\ events \in {<<gymEvent>>, <<callEvent, gymEvent>>}
    /\ configFile \in Configs
    /\ keychain \in Keychains
    /\ pending = {}
    /\ InitRunState

NextPlan ==
    \/ \E pessimistic \in BOOLEAN : CallGetTravelTime(pessimistic)
    \/ ConfigSettles
    \/ GetNextEvent
    \/ \E live \in LiveFixes : GetCurrentLocation(live)
    \/ \E resp \in PlanResponses : GetPossibleRoutes(resp)
    \/ AwaitConfig

SpecPlan == InitPlan /\ [][NextPlan]_vars

---------------------------------------------------------------------------
(* addUpdateNotification on its own: one call for each title, with trigger *)
(* times around the threshold.                                             *)

TriggerOffsets == {0 - 5, 0, 10, 30, 31, 600}

Triggers(t) == {Num(t + d) : d \in TriggerOffsets} \cup {NaN}

Messages == {"Leave NOW to Gym", "Get ready to leave to Gym"}

\* addUpdateNotification(title, message, triggerTimeSeconds) is called
AddUpdateNotification(title, message, trigger) ==
    /\ upsert[title].pc = "idle"
    /\ upsert' = [upsert EXCEPT ![title] = callUpsert(message, trigger, now)]
    /\ storeReads' = storeReads + (IF upsert'[title].pc = "reading" THEN 1 ELSE 0)
    /\ UNCHANGED loggerVars
    /\ UNCHANGED <<now, events, configFile, keychain, pending, pc, bePessimistic,
                   configPromise, nextEvent, myLocation, liveLocation,
                   mapsResult, possibleRoutes,
                   chosenRoute, routeInfo, refreshAfterDate, locCalls, dirCalls,
                   totalCalls, storeWrites>>

InitUpsert ==
    /\ now = EventStart - 1700
    /\ events = <<>>
    /\ configFile = Null
    /\ keychain = Null
    /\ pending \in InitialStores
    /\ InitRunState

NextUpsert ==
    \/ \E title \in Titles, message \in Messages, trigger \in Triggers(now) :
          AddUpdateNotification(title, message, trigger)
    \/ \E title \in Titles : AllPendingResolves(title)
    \/ \E title \in Titles : UpsertWrites(title)

SpecUpsert == InitUpsert /\ [][NextUpsert]_vars

---------------------------------------------------------------------------
(* One tracked event, and a host that runs the script when the refresh     *)
(* date it was given is reached, never before.  A refresh date that is no  *)
(* date holds the host to nothing: it then runs the script as it pleases,  *)
(* here every four minutes.                                                *)

UnthrottledGap == 4 * 60

FirstRunTimes == {EventStart - 7260, EventStart - 7200}

RunResponses == {okTwo, okLong, zeroResults}

RunFixes == {Some(position(Num(3), Num(5)))}

NextRunTimes ==
    IF pc = "idle" THEN FirstRunTimes
    ELSE IF IsNum(refreshAfterDate) THEN {refreshAfterDate.n}
    ELSE {now + UnthrottledGap}

ScheduledRun ==
    \E t \in NextRunTimes :
        /\ t <= EventStart + RefreshFloorSeconds
        /\ StartRun(t)

InitRuns ==
    /\ now = EventStart - 7400
    /\ events = <<gymEvent>>
    /\ configFile = Some([known_places |-> <<homePlace>>])
    /\ keychain = Some(stringify(position(Num(1), Num(1))))
    /\ pending = {}
    /\ InitRunState

NextRuns ==
    \/ ScheduledRun
    \/ ConfigSettles
    \/ GetNextEvent
    \/ \E live \in RunFixes : GetCurrentLocation(live)
    \/ \E resp \in RunResponses : GetPossibleRoutes(resp)
    \/ AwaitConfig
    \/ WidgetScript
    \/ \E title \in Titles : AllPendingResolves(title)
    \/ \E title \in Titles : UpsertWrites(title)
    \/ \E n \in pending : Deliver(n)

SpecRuns == InitRuns /\ [][NextRuns]_vars

---------------------------------------------------------------------------
(* Cycle after cycle for one event, with the travel time changing between  *)
(* the cycles, and a host that lets the reminder calls of a cycle finish   *)
(* before it runs the script again.                                        *)

CycleTimes == {EventStart - 7000, EventStart - 6600, EventStart - 1700}

CycleResponses == {okTwo, okLong}

\* no reminder call of the last run is between its read and its write
quiet == \A title \in Titles : upsert[title].pc \notin {"reading", "resolved"}

NextCycle ==
    /\ quiet
    /\ \E t \in CycleTimes : StartRun(t)

InitCycles ==
    /\ now = EventStart - 7400
    /\ events = <<gymEvent>>
    /\ configFile = Some([known_places |-> <<>>])
    /\ keychain = Null
    /\ pending = {}
    /\ InitRunState

NextCycles ==
    \/ NextCycle
    \/ ConfigSettles
    \/ GetNextEvent
    \/ \E live \in RunFixes : GetCurrentLocation(live)
    \/ \E resp \in CycleResponses : GetPossibleRoutes(resp)
    \/ AwaitConfig
    \/ WidgetScript
    \/ \E title \in Titles : AllPendingResolves(title)
    \/ \E title \in Titles : UpsertWrites(title)
    \/ \E n \in pending : Deliver(n)

SpecCycles == InitCycles /\ [][NextCycles]_vars

---------------------------------------------------------------------------
(* The logger on its own: up to MaxCalls calls of its methods, openLogFile *)
(* first, as its documentation asks.                                       *)

FunctionNames == {"f", "g"}

InitLog ==
    /\ now = EventStart - 7400
    /\ events = <<>>
    /\ configFile = Null
    /\ keychain = Null
    /\ pending = {}
    /\ InitRunState

NextLog ==
    \/ \E startNew \in BOOLEAN : OpenLogFile(startNew)
    \/ \E functionName \in FunctionNames \cup {""} :
          WriteToLogFile("message", functionName, "INFO")
    \/ \E functionName \in FunctionNames \cup {""}, fromFunction \in {"", "f"} :
          PushFunction(functionName, fromFunction)
    \/ \E functionName \in FunctionNames \cup {"", "Null"} :
          PopFunction(functionName)
    \/ CloseLogFile

SpecLog == InitLog /\ [][NextLog]_vars

---------------------------------------------------------------------------
(* Properties.                                                             *)

returned == pc \in {"widget", "complete"}

\* an event that qualifies at time t: it starts in (t, t + 120 min] and has a
\* location that is not empty
qualifies(ev, t) ==
    /\ ev.startDate > t
    /\ ev.startDate <= t + 120 * 60
    /\ ev.location # Null
    /\ ev.location[1] # <<>>

qualifying(evs, t) == {i \in 1..Len(evs) : qualifies(evs[i], t)}

selected == pc \in {"getCurrentLocation", "widget"}

\* C1 (SpecSelect): once getNextEvent has returned, its result is the sentinel
\* titled 'none' when no event of the list qualifies, and otherwise carries the
\* title and the start time of a qualifying event whose start time is the least
\* among the qualifying events.
C1_SelectsEarliestQualifying ==
    selected =>
        IF qualifying(events, now) = {}
        THEN nextEvent.title = "none" /\ nextEvent.location = Null
        ELSE \E i \in qualifying(events, now) :
                /\ \A j \in qualifying(events, now) :
                      events[i].startDate <= events[j].startDate
                /\ nextEvent.title = events[i].title
                /\ nextEvent.time = events[i].startDate
                /\ nextEvent.location # Null
                /\ events[i].location[1] = HomeLocation => nextEvent.location = Some(HomeToken)

\* C1 witness: two qualifying events, the later one first in the list, and the
\* earlier one selected
C1_Witness ==
    /\ selected
    /\ Len(events) = 2
    /\ qualifying(events, now) = {1, 2}
    /\ events[1].startDate > events[2].startDate
    /\ nextEvent.time = events[2].startDate
    /\ nextEvent.title = events[2].title

\* C2 (Spec): when the response has a status other than 'OK' (a missing status
\* included, with or without an error_message), getTravelTime returns the
\* 'Maps API error' RouteInfo with routeTimeSeconds 0 and no arrivalTargetTime,
\* and the widget script calls addUpdateNotification for no reminder.
C2_NonOkStatusIsMapsError ==
    (returned /\ mapsResult # Null /\ ~mapsResult[1].failed
              /\ mapsResult[1].status # Some("OK")) =>
        /\ routeInfo.destinationName = "Maps API error"
        /\ routeInfo.routeTimeSeconds = Num(0)
        /\ ~IsPresent(routeInfo.arrivalTargetTime)
        /\ \A title \in Titles : upsert[title].pc \in {"idle", "skipped"}

\* C3 (Spec): when the selected event's normalised location is among a known
\* place's location_names and a candidate's name is among that place's
\* preferred_routes, the route chosen is the first such candidate.
C3_PreferredRouteIsChosen ==
    (returned /\ chosenRoute # Null /\ nextEvent.location # Null) =>
        LET places == configFile[1].known_places
        IN  \A k \in 1..Len(places), p \in 1..Len(possibleRoutes) :
               ( /\ nextEvent.location[1] \in places[k].location_names
                 /\ \A k2 \in 1..(k - 1) :
                       nextEvent.location[1] \notin places[k2].location_names
                 /\ possibleRoutes[p].name \in places[k].preferred_routes
                 /\ \A p2 \in 1..(p - 1) :
                       possibleRoutes[p2].name \notin places[k].preferred_routes )
               => chosenRoute[1] = possibleRoutes[p]

\* C4 (Spec): in a run in which no event qualifies, getTravelTime neither
\* fails nor asks for the location or for directions, and what it returns is
\* routeName 'none', routeTimeSeconds 0, destinationName 'No where to go...'.
C4_NoEventNoServiceCall ==
    (pc # "idle" /\ qualifying(events, now) = {}) =>
        /\ pc \in {"getNextEvent", "widget", "complete"}
        /\ locCalls = 0
        /\ dirCalls = 0
        /\ returned =>
              /\ routeInfo.routeName = "none"
              /\ routeInfo.routeTimeSeconds = Num(0)
              /\ routeInfo.destinationName = "No where to go..."

\* C4 witness: a calendar with events none of which qualifies, and the run
\* completed with the 'No where to go...' result
C4_Witness ==
    /\ pc = "complete"
    /\ events # <<>>
    /\ qualifying(events, now) = {}
    /\ routeInfo.destinationName = "No where to go..."
    /\ dirCalls = 0

occurrences(seq, x) == Cardinality({i \in 1..Len(seq) : seq[i] = x})

okResponse == mapsResult # Null /\ ~mapsResult[1].failed /\ mapsResult[1].status = Some("OK")

\* the known place the destination token names has a preferred candidate
preferenceApplies(token, places, routes) ==
    \E k \in 1..Len(places) :
        /\ token \in places[k].location_names
        /\ \E p \in 1..Len(routes) : routes[p].name \in places[k].preferred_routes

\* C5 (SpecPlan): on the success path the candidates are the routes of the
\* response, each once, in descending order of travel time; and when no known
\* place matches the destination or no candidate is preferred, the chosen route
\* is candidates[0] and no route of the response takes longer.
C5_SortedDescendingDefaultLongest ==
    (okResponse /\ pc \in {"awaitConfig", "widget"}) =>
        /\ Len(possibleRoutes) = Len(mapsResult[1].routes)
        /\ \A i \in 1..Len(possibleRoutes) :
              occurrences(possibleRoutes, possibleRoutes[i]) =
              occurrences(mapsResult[1].routes,
                          leg(possibleRoutes[i].name, possibleRoutes[i].travelTime))
        /\ \A i, j \in 1..Len(possibleRoutes) :
              i < j => possibleRoutes[i].travelTime.n >= possibleRoutes[j].travelTime.n
        /\ (pc = "widget" /\ ~preferenceApplies(nextEvent.location[1],
                                                configFile[1].known_places,
                                                possibleRoutes)) =>
              /\ chosenRoute = Some(possibleRoutes[1])
              /\ \A i \in 1..Len(mapsResult[1].routes) :
                    chosenRoute[1].travelTime.n >= mapsResult[1].routes[i].duration.n

\* C5 witness: three routes answered with the shortest first, no known place,
\* and the longest one chosen
C5_Witness ==
    /\ pc = "widget"
    /\ okResponse
    /\ configFile = Some([known_places |-> <<>>])
    /\ mapsResult[1].routes =
          <<leg("A2", Num(1000)), leg("M1", Num(5000)), leg("A2", Num(3001))>>
    /\ chosenRoute = Some(mapRoute(leg("M1", Num(5000))))

\* C6 (SpecPlan): for a chosen route of t seconds the returned routeTimeSeconds
\* is t when bePessimistic is false, and t + b when it is true, b being the
\* greater of 600 and the least whole number of seconds that is at least t / 5
\* (1000 -> 1600, 5000 -> 6000).
C6_PessimismBuffer ==
    (pc = "widget" /\ chosenRoute # Null /\ IsNum(chosenRoute[1].travelTime)) =>
        LET t == chosenRoute[1].travelTime.n
            b == routeInfo.routeTimeSeconds.n - t
        IN  /\ IsNum(routeInfo.routeTimeSeconds)
            /\ ~bePessimistic => b = 0
            /\ bePessimistic =>
                  /\ b >= 600
                  /\ 5 * b >= t
                  /\ b = 600 \/ 5 * (b - 1) < t
                  /\ t = 1000 => routeInfo.routeTimeSeconds = Num(1600)
                  /\ t = 5000 => routeInfo.routeTimeSeconds = Num(6000)

\* C6 witness: a chosen route of 3001 seconds, pessimistic: 3001 + 601
C6_Witness ==
    /\ pc = "widget"
    /\ bePessimistic
    /\ chosenRoute # Null
    /\ chosenRoute[1].travelTime = Num(3001)
    /\ routeInfo.routeTimeSeconds = Num(3602)

\* C7 (Spec): the refresh date the script sets is a date, is now + 5 minutes
\* or later, and is the later of now + 5 minutes and the candidate:
\* arrivalTargetTime - 2 * routeTimeSeconds when the RouteInfo has both
\* times, now otherwise.
C7_RefreshDateFloor ==
    pc = "complete" =>
        /\ IsNum(refreshAfterDate)
        /\ refreshAfterDate.n >= now + 5 * 60
        /\ (bothTimes(routeInfo) /\ IsNum(routeInfo.arrivalTargetTime)
                                 /\ IsNum(routeInfo.routeTimeSeconds)) =>
              refreshAfterDate.n =
                  maxOf(routeInfo.arrivalTargetTime.n - 2 * routeInfo.routeTimeSeconds.n,
                        now + 5 * 60)
        /\ ~bothTimes(routeInfo) => refreshAfterDate.n = now + 5 * 60

\* C8 (SpecRuns): with one tracked event and every run started no earlier than
\* the refresh date of the run before, directions are requested at most once
\* in a run and at most 24 times in all.
C8_AtMost24Requests ==
    /\ dirCalls <= 1
    /\ totalCalls + dirCalls <= 24

called(title) == upsert[title].pc # "idle"

proceeded(title) == upsert[title].pc \in {"reading", "resolved", "done"}

\* C9 (SpecUpsert): a call of addUpdateNotification goes on to read the pending
\* notifications exactly when its trigger time is more than 30 seconds after
\* now; otherwise it reads nothing and writes nothing, and the notifications of
\* its title stay as they were.
C9_ThresholdGuardsTheStore ==
    /\ \A title \in Titles :
          called(title) =>
              (proceeded(title) <=>
                  (IsNum(upsert[title].trigger) /\ upsert[title].trigger.n > now + 30))
    /\ storeReads = Cardinality({title \in Titles : proceeded(title)})
    /\ storeWrites = Cardinality({title \in Titles : upsert[title].pc = "done"})
    /\ \A title \in Titles :
          upsert[title].pc # "done" => withTitle(pending, title) \subseteq {oldReminder}

\* C9 witness: the call for now + 10 s was skipped, the one for now + 31 s wrote
C9_Witness ==
    /\ upsert["Leave Now"].pc = "skipped"
    /\ upsert["Leave Now"].trigger = Num(now + 10)
    /\ upsert["Get Ready To Leave"].pc = "done"
    /\ upsert["Get Ready To Leave"].trigger = Num(now + 31)
    /\ \E n \in pending : n.title = "Get Ready To Leave" /\ n.trigger = now + 31
    /\ storeReads = 1
    /\ storeWrites = 1

\* C10 (Spec): at most one notification of each title is pending, whatever the
\* order in which the two calls of a run read and write; and a call that found
\* a pending notification of its title has written to that notification: no
\* other one of that title is pending.
C10_OnePendingPerTitle ==
    \A title \in Titles :
        /\ Cardinality(withTitle(pending, title)) <= 1
        /\ (upsert[title].pc = "done" /\ upsert[title].found # Null) =>
              \A n \in withTitle(pending, title) : n.id = upsert[title].found[1]

\* C10 witness: the reminder pending from before was updated in place and the
\* second reminder created
C10_Witness ==
    /\ upsert["Leave Now"].pc = "done"
    /\ upsert["Leave Now"].found = Some(0)
    /\ upsert["Get Ready To Leave"].pc = "done"
    /\ upsert["Get Ready To Leave"].found = Null
    /\ \E n \in pending : n.id = 0 /\ n.body = "Leave NOW to Gym"
    /\ Cardinality(pending) = 2

\* C11 (Spec): when the script has run with a RouteInfo that has an
\* arrivalTargetTime, it has called addUpdateNotification for the title
\* 'Leave Now' with the body 'Leave NOW to ' + destinationName and the trigger
\* time arrivalTargetTime - routeTimeSeconds (no number when the travel time is
\* none).
C11_LeaveNowRequested ==
    (pc = "complete" /\ IsPresent(routeInfo.arrivalTargetTime)) =>
        /\ called("Leave Now")
        /\ upsert["Leave Now"].message = "Leave NOW to " \o routeInfo.destinationName
        /\ upsert["Leave Now"].trigger =
              IF IsNum(routeInfo.arrivalTargetTime) /\ IsNum(routeInfo.routeTimeSeconds)
              THEN Num(routeInfo.arrivalTargetTime.n - routeInfo.routeTimeSeconds.n)
              ELSE NaN

\* C11 witness: the event at EventStart, 1600 seconds away: the call for
\* 'Leave NOW to Gym' at EventStart - 1600
C11_Witness ==
    /\ pc = "complete"
    /\ routeInfo.destinationName = "Gym"
    /\ routeInfo.arrivalTargetTime = Num(EventStart)
    /\ routeInfo.routeTimeSeconds = Num(1600)
    /\ upsert["Leave Now"].message = "Leave NOW to Gym"
    /\ upsert["Leave Now"].trigger = Num(EventStart - 1600)

\* the RouteInfo has an arrivalTargetTime and the time to leave is later than
\* ten minutes ago
getReadyDue ==
    /\ IsPresent(routeInfo.arrivalTargetTime)
    /\ IsNum(routeInfo.arrivalTargetTime)
    /\ IsNum(routeInfo.routeTimeSeconds)
    /\ routeInfo.arrivalTargetTime.n - routeInfo.routeTimeSeconds.n > now - 10 * 60

\* C12 (Spec): when the script has run, it has called addUpdateNotification
\* for the title 'Get Ready To Leave' exactly when the RouteInfo has an
\* arrivalTargetTime and the time to leave is later than now - 10 minutes; the
\* call has the body 'Get ready to leave to ' + destinationName and the trigger
\* time ten minutes before the time to leave.
C12_GetReadyIffNotLongPast ==
    pc = "complete" =>
        /\ called("Get Ready To Leave") <=> getReadyDue
        /\ getReadyDue =>
              /\ upsert["Get Ready To Leave"].message =
                    "Get ready to leave to " \o routeInfo.destinationName
              /\ upsert["Get Ready To Leave"].trigger =
                    Num(routeInfo.arrivalTargetTime.n - routeInfo.routeTimeSeconds.n
                        - 10 * 60)

\* C12 witness: the time to leave passed 100 seconds ago, and the call was made
\* for ten minutes before it
C12_Witness ==
    /\ pc = "complete"
    /\ now = EventStart - 1500
    /\ routeInfo.routeTimeSeconds = Num(1600)
    /\ upsert["Get Ready To Leave"].message = "Get ready to leave to Gym"
    /\ upsert["Get Ready To Leave"].trigger = Num(EventStart - 2200)

\* C13 (Spec): the RouteInfo getTravelTime has returned has arrivalTargetTime
\* and arrivalTime both or neither, and with neither its routeTimeSeconds is 0.
C13_TimesTogetherElseZero ==
    pc = "widget" =>
        /\ IsPresent(routeInfo.arrivalTargetTime) <=> IsPresent(routeInfo.arrivalTime)
        /\ ~IsPresent(routeInfo.arrivalTargetTime) => routeInfo.routeTimeSeconds = Num(0)

\* C13 witness: a RouteInfo for a route, returned with both times
C13_Witness ==
    /\ pc = "widget"
    /\ chosenRoute # Null
    /\ routeInfo.arrivalTargetTime = Num(EventStart)
    /\ routeInfo.arrivalTime = Num(now + 1600)

\* the directions service gave nothing to plan with: the request failed, or the
\* payload has status 'OK' and no route, or a route without duration_in_traffic
nothingFromProvider ==
    /\ mapsResult # Null
    /\ \/ mapsResult[1].failed
       \/ /\ mapsResult[1].status = Some("OK")
          /\ \/ mapsResult[1].routes = <<>>
             \/ \E i \in 1..Len(mapsResult[1].routes) :
                    ~IsNum(mapsResult[1].routes[i].duration)

\* C14 (Spec): when the directions request fails, or answers 'OK' with no
\* route or with a route that has no duration in traffic, getTravelTime does
\* not fail: it returns the RouteInfo with destinationName 'Maps API error' and
\* routeTimeSeconds 0.
C14_ProviderFailureIsAResult ==
    nothingFromProvider =>
        /\ pc # "failed"
        /\ returned =>
              /\ routeInfo.destinationName = "Maps API error"
              /\ routeInfo.routeTimeSeconds = Num(0)

configUnavailable == configFile = Null \/ "known_places" \notin DOMAIN configFile[1]

\* C15 (Spec): when the configuration file is missing, is not JSON or has no
\* known_places, getTravelTime does not fail once a response with status 'OK'
\* has given it the candidates: it returns the RouteInfo of the default
\* candidate, candidates[0].
C15_ConfigUnavailableDegrades ==
    (configUnavailable /\ okResponse /\ possibleRoutes # <<>>) =>
        /\ pc # "failed"
        /\ returned =>
              /\ chosenRoute = Some(possibleRoutes[1])
              /\ routeInfo.routeName = possibleRoutes[1].name

\* getCurrentLocation has been called in this run and has returned or thrown
located == locCalls > 0 /\ pc # "getCurrentLocation"

\* Location.current() threw, or its fix has no latitude or no longitude
liveUnavailable ==
    \/ liveLocation = Null
    \/ ~IsPresent(liveLocation[1].latitude)
    \/ ~IsPresent(liveLocation[1].longitude)

\* C16 (Spec): when the live query gave no position and the keychain holds
\* none, the run has failed in getCurrentLocation: no directions request has
\* been sent, no response received and no location handed on.
C16_NoPositionAbortsBeforeRequest ==
    (located /\ liveUnavailable /\ keychain = Null) =>
        /\ pc = "failed"
        /\ dirCalls = 0
        /\ mapsResult = Null
        /\ myLocation = Null

\* C16 witness: an eligible event, Location.current() threw, nothing cached
C16_Witness ==
    /\ pc = "failed"
    /\ nextEvent.title = "Gym"
    /\ locCalls = 1
    /\ liveLocation = Null
    /\ keychain = Null
    /\ dirCalls = 0

\* C17 (Spec): a call of getCurrentLocation in which the live query gave no
\* position (it threw, or the fix lacks a coordinate) while the keychain holds
\* one returns the position in the keychain and leaves the keychain as it was.
C17_FallbackReturnsCache ==
    [][ ( /\ pc = "getCurrentLocation"
          /\ pc' # "getCurrentLocation"
          /\ keychain # Null
          /\ \/ liveLocation' = Null
             \/ ~IsPresent(liveLocation'[1].latitude)
             \/ ~IsPresent(liveLocation'[1].longitude) )
        => ( /\ pc' = "getPossibleRoutes"
             /\ myLocation' = Some(parse(keychain[1]))
             /\ keychain' = keychain ) ]_vars

\* C17 witness: a fix without latitude, and the cached position (1, 1) returned
C17_Witness ==
    /\ pc = "getPossibleRoutes"
    /\ liveLocation = Some(position(Undefined, Num(5)))
    /\ myLocation = Some(position(Num(1), Num(1)))
    /\ keychain = Some(stringify(position(Num(1), Num(1))))

\* C18 (Spec): when Location.current() has given a fix with a latitude and a
\* longitude, whatever their values, getCurrentLocation has returned that fix
\* and the keychain holds it.
C18_EveryFixIsReturnedAndCached ==
    ( /\ located
      /\ liveLocation # Null
      /\ IsNum(liveLocation[1].latitude)
      /\ IsNum(liveLocation[1].longitude) ) =>
        /\ myLocation = liveLocation
        /\ keychain # Null
        /\ parse(keychain[1]) = liveLocation[1]

\* C19 (Spec): getConfig has been called when getNextEvent is awaited; a
\* directions request has been sent, and a response received, only with the
\* location in hand; the configuration is awaited, and the route chosen, only
\* with the event selected, and the route is chosen only with the
\* configuration loaded.
C19_OrderOfTheCycle ==
    /\ pc = "getNextEvent" => configPromise # "none" /\ nextEvent = unsetEvent
    /\ (dirCalls > 0 \/ mapsResult # Null) => myLocation # Null /\ located
    /\ pc = "awaitConfig" => nextEvent # unsetEvent /\ possibleRoutes # <<>>
    /\ chosenRoute # Null =>
          /\ configPromise = "resolved"
          /\ nextEvent # unsetEvent
          /\ myLocation # Null

\* C19 witness: a route chosen, with configuration, event and location there
C19_Witness ==
    /\ pc = "widget"
    /\ chosenRoute # Null
    /\ configPromise = "resolved"
    /\ nextEvent.title = "Gym"
    /\ myLocation # Null
    /\ dirCalls = 1

\* C20 (Spec): the widget script, run from the return of getTravelTime to
\* Script.complete(), leaves every field of the RouteInfo as it was returned.
C20_RouteInfoIsNotModified ==
    [][ (pc = "widget" /\ pc' = "complete") => routeInfo' = routeInfo ]_vars

\* C21 (Spec): a run whose RouteInfo has no arrivalTargetTime completes with
\* no call of addUpdateNotification made, the pending notifications not read
\* and none written; through its completion and after it the pending
\* notifications stay as they were, but for those the notification centre
\* delivers when they are due.
C21_NoTargetLeavesTheStore ==
    [][ (pc' = "complete" /\ ~IsPresent(routeInfo'.arrivalTargetTime)) =>
            /\ \A title \in Titles : upsert'[title] = idleUpsert
            /\ storeReads' = 0
            /\ storeWrites' = 0
            /\ pending' \subseteq pending
            /\ \A n \in pending \ pending' : n.trigger <= now ]_vars

\* C21 witness: a run that ended in 'Maps API error', and the reminder of an
\* earlier run still pending
C21_Witness ==
    /\ pc = "complete"
    /\ routeInfo.destinationName = "Maps API error"
    /\ ~IsPresent(routeInfo.arrivalTargetTime)
    /\ dirCalls = 1
    /\ pending = {oldReminder}

\* C22 (Spec): when the script reaches Script.complete(), no call of
\* addUpdateNotification is suspended at Notification.allPending() or between
\* its read and its schedule(): each one was skipped or has written.
C22_UpsertsDoneAtCompletion ==
    [][ (pc = "widget" /\ pc' = "complete") =>
            \A title \in Titles : upsert'[title].pc \in {"idle", "skipped", "done"} ]_vars

\* C23 (SpecCycles): whenever a 'Get Ready To Leave' and a 'Leave Now'
\* notification are both pending (and neither is due), the former triggers
\* exactly ten minutes before the latter.
C23_GetReadyTenMinutesBefore ==
    \A g, l \in pending :
        ( /\ g.title = "Get Ready To Leave"
          /\ l.title = "Leave Now"
          /\ g.trigger > now
          /\ l.trigger > now ) => g.trigger = l.trigger - 10 * 60

\* C24 (SpecLog): while the log is closed after having been opened, no call
\* of a logger method changes the log content or the log file; and a call of
\* writeToLogFile on the closed log throws.
C24_ClosedLogIsNotWritten ==
    [][ (logFilePath # "" /\ ~fileOpen /\ ~fileOpen') =>
            /\ logFileContent' = logFileContent
            /\ logFile' = logFile
            /\ (loggerCall'.n # loggerCall.n /\ loggerCall'.op = "writeToLogFile") =>
                  loggerCall'.threw ]_vars

\* the stack without the entry named name behind index 0, if there is one
withoutEntry(stack, name) ==
    IF \E i \in 2..Len(stack) : stack[i].name = name
    THEN LET i == CHOOSE k \in 2..Len(stack) : stack[k].name = name
         IN  [k \in 1..(Len(stack) - 1) |-> IF k < i THEN stack[k] ELSE stack[k + 1]]
    ELSE stack

\* C25 (SpecLog): the function stack always has the default entry (name '',
\* indentLevel 0) at index 0 and no two entries of the same name, and a call
\* popFunction(name) takes out the entry of that name behind index 0, if
\* there is one, and leaves every other entry as it was.
C25_FunctionStackKept ==
    /\ [](/\ Len(functionStack) >= 1
          /\ functionStack[1].name = ""
          /\ functionStack[1].indentLevel = 0
          /\ \A i, j \in 1..Len(functionStack) :
                functionStack[i].name = functionStack[j].name => i = j)
    /\ [][ (loggerCall'.n # loggerCall.n /\ loggerCall'.op = "popFunction") =>
              functionStack' = withoutEntry(functionStack, loggerCall'.arg) ]_vars

==========================================================================
